---------------------------- MODULE Spec2Model ----------------------------
(***************************************************************************)
(* Include path estimator (modules/estimateincludepaths.py) and pdsc       *)
(* description coverage (modules/pdsccoverage.py).                         *)
(*                                                                         *)
(* A path or include string is a sequence of atoms: the separator "/" and  *)
(* the segment names.  Python's str.split / str.join are Split and Join,   *)
(* list slices with possibly negative indices are PySliceFrom/PySliceTo.   *)
(* Python lists and (insertion ordered) dicts are sequences.               *)
(***************************************************************************)
EXTENDS Integers, Sequences, FiniteSets, TLC

VARIABLES dirs, hfiles, cincludes, pc, sources, headers, database, resolved,
          summarized_include_paths, cursor,
          include_paths_by_type, report_files, pdsc, coverage

vars == <<dirs, hfiles, cincludes, pc, sources, headers, database, resolved,
          summarized_include_paths, cursor,
          include_paths_by_type, report_files, pdsc, coverage>>

-----------------------------------------------------------------------------
(* Bounds of the model *)

\* largest number of ".." segments in front of an include token
MaxUp == 2

\* largest number of #include lines in the .c files of a tree
MaxIncludes == 2

-----------------------------------------------------------------------------
(* Strings *)

Sep == "/"

\* rank of an atom = order of its first character in ASCII ('.' < '/' < 'a');
\* "." is a prefix of ".."
Rank == [a \in {".", "..", "/", "a", "b", "c", "f.c", "stdio.h", "x.h"} |->
           CASE a = "." -> 0 [] a = ".." -> 1 [] a = "/" -> 2 [] a = "a" -> 3
             [] a = "b" -> 4 [] a = "c" -> 5 [] a = "f.c" -> 6
             [] a = "stdio.h" -> 7 [] a = "x.h" -> 8]

\* Python's None; a value that is no path string
None == <<"None">>

RECURSIVE StrLess(_, _)
\* s < t for Python strings
StrLess(s, t) ==
  IF t = <<>> THEN FALSE
  ELSE IF s = <<>> THEN TRUE
  ELSE IF Head(s) = Head(t) THEN StrLess(Tail(s), Tail(t))
  ELSE Rank[Head(s)] < Rank[Head(t)]

RECURSIVE Split(_)
\* str.split(separator()): the list of segments, never empty
Split(s) ==
  IF s = <<>> THEN << <<>> >>
  ELSE LET rest == Split(Tail(s)) IN
       IF Head(s) = Sep THEN << <<>> >> \o rest
       ELSE << <<Head(s)>> \o Head(rest) >> \o Tail(rest)

RECURSIVE Join(_)
\* separator().join(tokens)
Join(tokens) ==
  IF tokens = <<>> THEN <<>>
  ELSE IF Len(tokens) = 1 THEN Head(tokens)
  ELSE Head(tokens) \o <<Sep>> \o Join(Tail(tokens))

\* seq[i:] of Python, i may be negative
PySliceFrom(seq, i) ==
  LET n == Len(seq)
      start == IF i < 0 THEN (IF n + i < 0 THEN 0 ELSE n + i)
               ELSE (IF i > n THEN n ELSE i)
  IN SubSeq(seq, start + 1, n)

\* seq[:j] of Python, j may be negative
PySliceTo(seq, j) ==
  LET n == Len(seq)
      stop == IF j < 0 THEN (IF n + j < 0 THEN 0 ELSE n + j)
              ELSE (IF j > n THEN n ELSE j)
  IN SubSeq(seq, 1, stop)

\* list.count(x)
Count(seq, x) == Cardinality({i \in 1..Len(seq) : seq[i] = x})

\* x in list
InList(x, seq) == \E i \in 1..Len(seq) : seq[i] = x

Range(seq) == {seq[i] : i \in 1..Len(seq)}

\* the least string of a non-empty set
MinStr(S) == CHOOSE s \in S : \A t \in S : t = s \/ StrLess(s, t)

RECURSIVE SortedSet(_)
\* sorted(set(S)) for a set of strings
SortedSet(S) ==
  IF S = {} THEN <<>>
  ELSE LET m == MinStr(S) IN <<m>> \o SortedSet(S \ {m})

\* mutant: the list is left in the order of its appends
Sorted_AsAppended(seq) == seq

\* sorted(list) for a list of strings
Sorted(seq) ==
  LET RECURSIVE Ins(_, _)
      Ins(x, out) == IF out = <<>> THEN <<x>>
                     ELSE IF StrLess(x, Head(out)) THEN <<x>> \o out
                     ELSE <<Head(out)>> \o Ins(x, Tail(out))
      RECURSIVE Go(_, _)
      Go(i, out) == IF i > Len(seq) THEN out ELSE Go(i + 1, Ins(seq[i], out))
  IN Go(1, <<>>)

\* PurePath(p).as_posix(): "." segments and the empty segments after the
\* first are dropped, the empty path is "."
as_posix(p) ==
  LET toks == Split(p)
      keep == [i \in 1..Len(toks) |->
                 (i = 1 \/ toks[i] # <<>>) /\ toks[i] # <<".">>]
      RECURSIVE Sel(_)
      Sel(i) == IF i > Len(toks) THEN <<>>
                ELSE (IF keep[i] THEN <<toks[i]>> ELSE <<>>) \o Sel(i + 1)
  IN IF Join(Sel(1)) = <<>> THEN <<".">> ELSE Join(Sel(1))

-----------------------------------------------------------------------------
(* The file system: disk = [dirs |-> set of directories, files |-> set of  *)
(* files], every path a string relative to the working directory.          *)

Reverse(seq) == [i \in 1..Len(seq) |-> seq[Len(seq) + 1 - i]]

\* os.path.join(path, name)
PathJoin(path, name) ==
  IF path # <<>> /\ path[Len(path)] = Sep THEN path \o <<name>>
  ELSE path \o <<Sep, name>>

\* the entries of directory path: the paths on disk one segment below it
Entries(disk, path) ==
  {e \in disk.dirs \cup disk.files :
     /\ e # <<>>
     /\ e = PathJoin(path, e[Len(e)])
     /\ e[Len(e)] # Sep}

\* os.scandir(path): raises unless path is a directory on disk (the empty
\* string is none); yields the entries in an order the file system chooses,
\* here ascending or descending by name
scandir(disk, ord, path) ==
  IF path \notin disk.dirs THEN [raised |-> TRUE, entries |-> <<>>]
  ELSE LET asc == SortedSet(Entries(disk, path))
       IN [raised |-> FALSE,
           entries |-> IF ord = "asc" THEN asc ELSE Reverse(asc)]

-----------------------------------------------------------------------------
(* PathResolver *)

\* mutant: is_dir() is not asked, files are listed too
Subfolders_NoIsDir(disk, entries) == entries

\* [path for path in os.scandir(include_path_candidate) if path.is_dir()]
Subfolders(disk, entries) ==
  SelectSeq(entries, LAMBDA e : e \in disk.dirs)

\* mutant: the filter has the upper limit only
FilterDepth_NoLowerLimit(subfolders, up_reference_count, header_tokens) ==
  LET origin_path_length == Len(header_tokens) - 1
      RECURSIVE Go(_, _)
      Go(i, ambiguous_paths) ==
        IF i > Len(subfolders) THEN ambiguous_paths
        ELSE LET path == as_posix(subfolders[i])
                 path_tokens == Split(path)
             IN IF /\ Len(path_tokens) <= origin_path_length + up_reference_count
                   /\ ~InList(path, ambiguous_paths)
                THEN Go(i + 1, Append(ambiguous_paths, path))
                ELSE Go(i + 1, ambiguous_paths)
  IN Go(1, <<>>)

\* the filter run: for path in subfolders: ... ambiguous_paths.append(path)
FilterDepth(subfolders, up_reference_count, header_tokens) ==
  LET origin_path_length == Len(header_tokens) - 1
      RECURSIVE Go(_, _)
      Go(i, ambiguous_paths) ==
        IF i > Len(subfolders) THEN ambiguous_paths
        ELSE LET path == as_posix(subfolders[i])
                 path_tokens == Split(path)
             IN IF /\ Len(path_tokens) > origin_path_length
                   /\ Len(path_tokens) <= origin_path_length + up_reference_count
                   /\ ~InList(path, ambiguous_paths)
                THEN Go(i + 1, Append(ambiguous_paths, path))
                ELSE Go(i + 1, ambiguous_paths)
  IN Go(1, <<>>)

\* up_level_references_folders; raised when os.scandir raises
up_level_references_folders(disk, ord, include_path_candidate, up_reference_count, header_tokens) ==
  LET listing == scandir(disk, ord, include_path_candidate)
  IN IF listing.raised THEN [raised |-> TRUE, paths |-> <<>>]
     ELSE [raised |-> FALSE,
           paths |-> FilterDepth(Subfolders(disk, listing.entries),
                                 up_reference_count, header_tokens)]

\* a dict header -> record is a sequence of [header, include_paths, path_types]
HasKey(dbase, header) == \E i \in 1..Len(dbase) : dbase[i].header = header

KeyIndex(dbase, header) == CHOOSE i \in 1..Len(dbase) : dbase[i].header = header

\* record_header: "path_notes" is never a key, so path_types is always reset
\* mutant: a record starts with the tag non_existing and keeps it
record_header_DefaultTag(dbase, header) ==
  LET db1 == IF ~HasKey(dbase, header)
             THEN Append(dbase, [header |-> header, include_paths |-> <<>>,
                                    path_types |-> <<>>])
             ELSE dbase
      k == KeyIndex(db1, header)
  IN [db1 EXCEPT ![k].path_types = <<"non_existing">>]

record_header(dbase, header) ==
  LET db1 == IF ~HasKey(dbase, header)
             THEN Append(dbase, [header |-> header, include_paths |-> <<>>,
                                    path_types |-> <<>>])
             ELSE dbase
      k == KeyIndex(db1, header)
  IN [db1 EXCEPT ![k].path_types = <<>>]

\* mutant: no None is appended when no folder was found
record_ambiguous_paths_NoPlaceholder(dbase, ambiguous_paths, header) ==
  LET k == KeyIndex(dbase, header)
      rec == dbase[k]
  IN IF ambiguous_paths = <<>>
     THEN [dbase EXCEPT
             ![k].path_types = IF ~InList("non_existing", rec.path_types)
                               THEN Append(rec.path_types, "non_existing")
                               ELSE rec.path_types]
     ELSE [dbase EXCEPT
             ![k].include_paths = ambiguous_paths,
             ![k].path_types = IF ~InList("ambiguous", rec.path_types)
                               THEN Append(rec.path_types, "ambiguous")
                               ELSE rec.path_types]

\* record_ambiguous_paths; "ambiguous_paths not in include_paths" compares a
\* list with path strings and None and is always true
record_ambiguous_paths(dbase, ambiguous_paths, header) ==
  LET k == KeyIndex(dbase, header)
      rec == dbase[k]
  IN IF ambiguous_paths = <<>>
     THEN [dbase EXCEPT
             ![k].include_paths = Append(rec.include_paths, None),
             ![k].path_types = IF ~InList("non_existing", rec.path_types)
                               THEN Append(rec.path_types, "non_existing")
                               ELSE rec.path_types]
     ELSE [dbase EXCEPT
             ![k].include_paths = ambiguous_paths,
             ![k].path_types = IF ~InList("ambiguous", rec.path_types)
                               THEN Append(rec.path_types, "ambiguous")
                               ELSE rec.path_types]

\* the common body of record_optional_paths and record_mandatory_paths
RecordPath(dbase, include_path_candidate, header, tag) ==
  LET k == KeyIndex(dbase, header)
      rec == dbase[k]
  IN IF ~InList(include_path_candidate, rec.include_paths)
     THEN [dbase EXCEPT
             ![k].include_paths = Append(rec.include_paths, include_path_candidate),
             ![k].path_types = IF ~InList(tag, rec.path_types)
                               THEN Append(rec.path_types, tag)
                               ELSE rec.path_types]
     ELSE dbase

record_optional_paths(dbase, include_path_candidate, header) ==
  RecordPath(dbase, include_path_candidate, header, "optional")

record_mandatory_paths(dbase, include_path_candidate, header) ==
  RecordPath(dbase, include_path_candidate, header, "mandatory")

\* include_tokens.count("..")
UpReferenceCount(include_tokens) == Count(include_tokens, <<"..">>)

\* mutant: only the file names are compared
HeaderMatches_NameOnly(header_tokens, include_tokens, up_reference_count) ==
  PySliceFrom(header_tokens, -1) = PySliceFrom(include_tokens, -1)

\* header_tokens[-len(include_tokens) + up_reference_count:]
\*   == include_tokens[up_reference_count:]
HeaderMatches(header_tokens, include_tokens, up_reference_count) ==
  PySliceFrom(header_tokens, -Len(include_tokens) + up_reference_count)
    = PySliceFrom(include_tokens, up_reference_count)

\* mutant: the header's folder, whatever the length of the include
IncludePathCandidate_HeaderFolder(header_tokens, include_tokens, up_reference_count) ==
  Join(PySliceTo(header_tokens, -1))

\* mutant: one segment more than the include has is cut off the header
IncludePathCandidate_OneMore(header_tokens, include_tokens, up_reference_count) ==
  Join(PySliceTo(header_tokens, -Len(include_tokens) + up_reference_count - 1))

\* separator().join(header_tokens[: -len(include_tokens) + up_reference_count])
IncludePathCandidate(header_tokens, include_tokens, up_reference_count) ==
  Join(PySliceTo(header_tokens, -Len(include_tokens) + up_reference_count))

\* mutant: the file names are compared too
SameFolder_WholePath(header_tokens, source_tokens) ==
  header_tokens = source_tokens

\* header_tokens[:-1] == source_tokens[:-1]
SameFolder(header_tokens, source_tokens) ==
  PySliceTo(header_tokens, -1) = PySliceTo(source_tokens, -1)

\* mutant: one ".." is not taken for an upward reference
HasUpReferences_MoreThanOne(up_reference_count) == up_reference_count > 1

\* if up_reference_count > 0:
HasUpReferences(up_reference_count) == up_reference_count > 0

\* the body of the loop of include_paths_for_include for one header_file
ResolveHeader(disk, ord, source_tokens, include_tokens, header_file, dbase) ==
  LET up_reference_count == UpReferenceCount(include_tokens)
      header_tokens == Split(header_file)
  IN IF ~HeaderMatches(header_tokens, include_tokens, up_reference_count)
     THEN [raised |-> FALSE, database |-> dbase]
     ELSE
       LET include_path_candidate ==
             IncludePathCandidate(header_tokens, include_tokens, up_reference_count)
           db1 == record_header(dbase, header_file)
       IN IF HasUpReferences(up_reference_count)
          THEN LET amb == up_level_references_folders(
                            disk, ord, include_path_candidate,
                            up_reference_count, header_tokens)
               IN IF amb.raised THEN [raised |-> TRUE, database |-> db1]
                  ELSE [raised |-> FALSE,
                        database |-> record_ambiguous_paths(db1, amb.paths, header_file)]
          ELSE IF ~SameFolder(header_tokens, source_tokens)
               THEN [raised |-> FALSE,
                     database |-> record_mandatory_paths(
                                    db1, include_path_candidate, header_file)]
               ELSE [raised |-> FALSE,
                     database |-> record_optional_paths(
                                    db1, include_path_candidate, header_file)]

\* include_paths_for_include(source, include, headers) on the given disk;
\* raised when a directory listing raised, else the mapping header -> record
include_paths_for_include(disk, ord, source, include, hdrs) ==
  LET source_tokens == Split(source)
      include_tokens == Split(include)
      RECURSIVE Loop(_, _)
      Loop(i, db) ==
        IF i > Len(hdrs) THEN [raised |-> FALSE, database |-> db]
        ELSE LET r == ResolveHeader(disk, ord, source_tokens, include_tokens,
                                    hdrs[i], db)
             IN IF r.raised THEN r ELSE Loop(i + 1, r.database)
  IN Loop(1, <<>>)

-----------------------------------------------------------------------------
(* Aggregator.  The run's database is the sequence of the (source, include)*)
(* entries [source, include, mapped_headers] in iteration order; a         *)
(* PathTypeReport is a sequence of [path, types].                          *)

\* get_include_types: the first tag of the record of header j of entry i
get_include_types(dbase, i, j) == dbase[i].mapped_headers[j].path_types[1]

HasPath(pths, path) == \E n \in 1..Len(pths) : pths[n].path = path

\* mutant: the key inserted last is taken for the key of the path
PathIndex_Last(pths, path) == Len(pths)

\* paths[path]: the position of the key
PathIndex(pths, path) == CHOOSE n \in 1..Len(pths) : pths[n].path = path

\* mutant: the record's tag is not looked at
assign_types_NoFilter(pths, dbase, i, j, path) ==
  LET path_type == get_include_types(dbase, i, j)
      p1 == IF ~HasPath(pths, path)
            THEN Append(pths, [path |-> path, types |-> <<>>])
            ELSE pths
      n == PathIndex(p1, path)
  IN IF ~InList(path_type, p1[n].types)
     THEN [p1 EXCEPT ![n].types = Append(@, path_type)]
     ELSE p1

\* mutant: the tag of the record replaces the tags the path has
assign_types_Overwrite(pths, dbase, i, j, path) ==
  LET path_type == get_include_types(dbase, i, j)
  IN IF path_type # "non_existing"
     THEN LET p1 == IF ~HasPath(pths, path)
                    THEN Append(pths, [path |-> path, types |-> <<>>])
                    ELSE pths
              n == PathIndex(p1, path)
          IN [p1 EXCEPT ![n].types = <<path_type>>]
     ELSE pths

\* assign_types; Python's '"non_existing" not in path_type' is a substring
\* test on the tag, which no other tag passes
assign_types(pths, dbase, i, j, path) ==
  LET path_type == get_include_types(dbase, i, j)
  IN IF path_type # "non_existing"
     THEN LET p1 == IF ~HasPath(pths, path)
                    THEN Append(pths, [path |-> path, types |-> <<>>])
                    ELSE pths
              n == PathIndex(p1, path)
          IN IF ~InList(path_type, p1[n].types)
             THEN [p1 EXCEPT ![n].types = Append(@, path_type)]
             ELSE p1
     ELSE pths

\* the iterations of the four nested loops of paths_report, in order
Iterations(dbase) ==
  LET RECURSIVE OfPaths(_, _, _)
      OfPaths(i, j, k) ==
        IF k > Len(dbase[i].mapped_headers[j].include_paths) THEN <<>>
        ELSE << <<i, j, k>> >> \o OfPaths(i, j, k + 1)
      RECURSIVE OfHeaders(_, _)
      OfHeaders(i, j) ==
        IF j > Len(dbase[i].mapped_headers) THEN <<>>
        ELSE OfPaths(i, j, 1) \o OfHeaders(i, j + 1)
      RECURSIVE OfEntries(_)
      OfEntries(i) ==
        IF i > Len(dbase) THEN <<>>
        ELSE OfHeaders(i, 1) \o OfEntries(i + 1)
  IN OfEntries(1)

\* paths_report: the PathTypeReport after the last iteration of the loops
paths_report(dbase) ==
  LET its == Iterations(dbase)
      RECURSIVE Go(_, _)
      Go(n, pths) ==
        IF n > Len(its) THEN pths
        ELSE LET i == its[n][1]
                 j == its[n][2]
                 path == dbase[i].mapped_headers[j].include_paths[its[n][3]]
             IN Go(n + 1, assign_types(pths, dbase, i, j, path))
  IN Go(1, <<>>)

\* mutant: Mandatory does not keep a path out of the other lists
Bucket_NoPrecedence(pths, tag) ==
  LET RECURSIVE Go(_)
      Go(n) ==
        IF n > Len(pths) THEN <<>>
        ELSE (IF InList(tag, pths[n].types) THEN <<pths[n].path>> ELSE <<>>)
               \o Go(n + 1)
  IN Go(1)

\* mutant: a path is listed only when the tag is its only tag
Bucket_SingleTagOnly(pths, tag) ==
  LET RECURSIVE Go(_)
      Go(n) ==
        IF n > Len(pths) THEN <<>>
        ELSE (IF pths[n].types = <<tag>> THEN <<pths[n].path>> ELSE <<>>)
               \o Go(n + 1)
  IN Go(1)

\* the lists path_types_report appends to, before sorting
Bucket(pths, tag) ==
  LET RECURSIVE Go(_)
      Go(n) ==
        IF n > Len(pths) THEN <<>>
        ELSE LET types == pths[n].types
                 inb == CASE tag = "mandatory" -> InList("mandatory", types)
                          [] tag = "optional" ->
                               InList("optional", types) /\ ~InList("mandatory", types)
                          [] tag = "ambiguous" ->
                               InList("ambiguous", types) /\ ~InList("mandatory", types)
             IN (IF inb THEN <<pths[n].path>> ELSE <<>>) \o Go(n + 1)
  IN Go(1)

BucketNames == {"mandatory", "optional", "ambiguous"}

\* mutant: the ambiguous list is never filled
path_types_report_NoAmbiguous(pths) ==
  [tag \in {t \in {"mandatory", "optional"} : Bucket(pths, t) # <<>>} |->
     Sorted(Bucket(pths, tag))]

\* path_types_report: a defaultdict, a key exists once a path was appended
path_types_report(pths) ==
  [tag \in {t \in BucketNames : Bucket(pths, t) # <<>>} |-> Sorted(Bucket(pths, tag))]

-----------------------------------------------------------------------------
(* The include types *)

known_system_includes ==
  {<<"_ansi.h">>, <<"_fake_defines.h">>, <<"_fake_typedefs.h">>,
   <<"_syslist.h">>, <<"aio.h">>, <<"alloca.h">>, <<"ar.h">>, <<"argz.h">>,
   <<"assert.h">>, <<"c_types.h">>, <<"cerrno">>, <<"cmath">>,
   <<"complex.h">>, <<"cpio.h">>, <<"cstddef">>, <<"cstdint">>, <<"cstdio">>,
   <<"cstdlib">>, <<"cstring">>, <<"ctype.h">>, <<"dirent.h">>,
   <<"dlfcn.h">>, <<"emmintrin.h">>, <<"endian.h">>, <<"envz.h">>,
   <<"errno.h">>, <<"evntprov.h">>, <<"evntrace.h">>, <<"fastmath.h">>,
   <<"fcntl.h">>, <<"features.h">>, <<"fenv.h">>, <<"float.h">>,
   <<"fmtmsg.h">>, <<"fnmatch.h">>, <<"ftw.h">>, <<"getopt.h">>,
   <<"glob.h">>, <<"grp.h">>, <<"iconv.h">>, <<"ieeefp.h">>,
   <<"immintrin.h">>, <<"intrinsics.h">>, <<"inttypes.h">>, <<"iso646.h">>,
   <<"langinfo.h">>, <<"libgen.h">>, <<"libintl.h">>, <<"limits.h">>,
   <<"locale.h">>, <<"malloc.h">>, <<"math.h">>, <<"monetary.h">>,
   <<"mqueue.h">>, <<"ndbm.h">>, <<"netdb.h">>, <<"newlib.h">>,
   <<"nl_types.h">>, <<"paths.h">>, <<"poll.h">>, <<"process.h">>,
   <<"pthread.h">>, <<"pwd.h">>, <<"reent.h">>, <<"regdef.h">>,
   <<"regex.h">>, <<"sched.h">>, <<"search.h">>, <<"semaphore.h">>,
   <<"setjmp.h">>, <<"signal.h">>, <<"smmintrin.h">>, <<"spawn.h">>,
   <<"stdarg.h">>, <<"stdbool.h">>, <<"stddef.h">>, <<"stdint.h">>,
   <<"stdio.h">>, <<"stdlib.h">>, <<"string.h">>, <<"strings.h">>,
   <<"stropts.h">>, <<"sys", "/", "mkdev.h">>, <<"sys", "/", "param.h">>,
   <<"sys", "/", "reboot.h">>, <<"sys", "/", "resource.h">>,
   <<"sys", "/", "signal.h">>, <<"sys", "/", "socket.h">>,
   <<"sys", "/", "stat.h">>, <<"sys", "/", "syscall.h">>,
   <<"sys", "/", "time.h">>, <<"sys", "/", "times.h">>,
   <<"sys", "/", "types.h">>, <<"sys", "/", "uio.h">>,
   <<"sys", "/", "un.h">>, <<"sys", "/", "wait.h">>, <<"syslog.h">>,
   <<"tar.h">>, <<"termios.h">>, <<"tgmath.h">>, <<"time.h">>, <<"trace.h">>,
   <<"ulimit.h">>, <<"unctrl.h">>, <<"unistd.h">>, <<"utime.h">>,
   <<"utmp.h">>, <<"utmpx.h">>, <<"wchar.h">>, <<"wctype.h">>,
   <<"windows.h">>, <<"winsock2.h">>, <<"wmistr.h">>, <<"wordexp.h">>,
   <<"zlib.h">>}

\* internal_includes: the includes whose segments behind the ".." are the
\* trailing segments of a file
internal_includes(include_list, file_list) ==
  SortedSet({include \in Range(include_list) :
               \E file \in Range(file_list) :
                 LET include_tokens == Split(include)
                     up_reference_count == Count(include_tokens, <<"..">>)
                     file_tokens == Split(file)
                 IN PySliceFrom(file_tokens, -Len(include_tokens) + up_reference_count)
                      = PySliceFrom(include_tokens, up_reference_count)})

\* internal_includes of the script estimateincludepaths.py beside the
\* modules folder: the whole include is compared, ".." segments included
estimateincludepaths_internal_includes(include_list, file_list) ==
  SortedSet({include \in Range(include_list) :
               \E file \in Range(file_list) :
                 LET include_tokens == Split(include)
                     file_tokens == Split(file)
                 IN PySliceFrom(file_tokens, -Len(include_tokens)) = include_tokens})

\* external_includes
external_includes(include_list, internal_include_list) ==
  SortedSet(Range(include_list) \ Range(internal_include_list))

\* mutant: the file name of the include is looked up in the allow-list
IsKnownSystemInclude_FileName(include) ==
  <<include[Len(include)]>> \in known_system_includes

\* include in known_system_includes
IsKnownSystemInclude(include) == include \in known_system_includes

\* system_includes
system_includes(include_list) ==
  SortedSet({include \in Range(include_list) : IsKnownSystemInclude(include)})

\* mutant: "external" is appended whether or not the include is internal
include_type_AlwaysExternal(include, internal_include_list) ==
  (IF IsKnownSystemInclude(include) THEN <<"system">> ELSE <<>>)
    \o (IF InList(include, internal_include_list) THEN <<"internal">> ELSE <<>>)
    \o <<"external">>

\* the "include_type" list record_include_types builds for one include
include_type(include, internal_include_list) ==
  (IF IsKnownSystemInclude(include) THEN <<"system">> ELSE <<>>)
    \o (IF InList(include, internal_include_list)
        THEN <<"internal">> ELSE <<"external">>)

\* record_include_types: every entry gets the key "include_type"
record_include_types(dbase, internal_include_list) ==
  [i \in 1..Len(dbase) |->
     [source |-> dbase[i].source, include |-> dbase[i].include,
      mapped_headers |-> dbase[i].mapped_headers,
      include_type |-> include_type(dbase[i].include, internal_include_list)]]

-----------------------------------------------------------------------------
(* The trees the run is started on *)

Str(tokens) == Join([i \in 1..Len(tokens) |-> <<tokens[i]>>])

\* directories a tree may have; "a" is the root given to the run
AllDirs == {Str(<<"a">>), Str(<<"a", "b">>), Str(<<"a", "c">>), Str(<<"a", "b", "c">>)}

RootDir == Str(<<"a">>)

Parent(d) == Join(PySliceTo(Split(d), -1))

\* the empty tree: the root given to the run does not exist
Trees == {T \in SUBSET AllDirs :
            /\ T = {} \/ RootDir \in T
            /\ \A d \in T : d = RootDir \/ Parent(d) \in T}

\* directories that may hold the header x.h, and the .c file f.c
HeaderDirs == {Str(<<"a">>), Str(<<"a", "b">>)}

SourceDirs == {Str(<<"a">>), Str(<<"a", "b">>)}

\* what is left of an include token after its ".." segments
Tails == {<<"x.h">>, <<"b", "x.h">>, <<"a", "b", "x.h">>}

Ups(n) == [i \in 1..n |-> ".."]

\* the include tokens of the .c files: every tail as it is and behind one
\* "..", the bare "..", and the file name behind up to MaxUp ".."
IncludeTokens ==
  {Str(t) : t \in Tails} \cup {Str(Ups(1) \o t) : t \in Tails \cup {<<>>}}
    \cup {Str(Ups(n) \o <<"x.h">>) : n \in 1..MaxUp}

\* the (file, include) pairs a tree on the directories T may contain
Pairs(T) == {<<PathJoin(d, "f.c"), inc>> : d \in T \cap SourceDirs, inc \in IncludeTokens}

RECURSIVE SubsetsUpTo(_, _)
\* the subsets of S with at most n elements
SubsetsUpTo(S, n) ==
  IF n = 0 THEN {{}}
  ELSE LET Smaller == SubsetsUpTo(S, n - 1)
       IN Smaller \cup {A \cup {x} : A \in Smaller, x \in S}

-----------------------------------------------------------------------------
(* The run: estimate_include_paths *)

Disk == [dirs |-> dirs, files |-> hfiles \cup {p[1] : p \in cincludes}]

\* file.endswith(".h")
EndsWithH(file) == file # <<>> /\ file[Len(file)] \in {"x.h", "stdio.h"}

\* header_files(file_list)
header_files(file_list) == SortedSet({f \in Range(file_list) : EndsWithH(f)})

\* includes_from_file: the #include tokens of the file
includes_from_file(file) == {p[2] : p \in {q \in cincludes : q[1] = file}}

\* includes(file_list)
includes(file_list) == SortedSet(UNION {includes_from_file(f) : f \in Range(file_list)})

\* includes_with_count: the number of files an include occurs in (a file of
\* the model has an include once); the order of the entries is left out
includes_with_count(file_list) ==
  [include \in Range(includes(file_list)) |->
     Cardinality({f \in Range(file_list) : include \in includes_from_file(f)})]

PairLess(p, q) == StrLess(p[1], q[1]) \/ (p[1] = q[1] /\ StrLess(p[2], q[2]))

RECURSIVE SortedPairs(_)
\* the (source, include) keys in the order record_sources and record_includes
\* insert them: sources sorted, the includes of a source sorted
SortedPairs(S) ==
  IF S = {} THEN <<>>
  ELSE LET m == CHOOSE p \in S : \A q \in S : q = p \/ PairLess(p, q)
       IN <<m>> \o SortedPairs(S \ {m})

Init ==
  /\ dirs \in Trees
  /\ hfiles \in SUBSET {PathJoin(d, "x.h") : d \in dirs \cap HeaderDirs}
  /\ cincludes \in SubsetsUpTo(Pairs(dirs), MaxIncludes)
  /\ pc = "source_files"
  /\ sources = <<>>
  /\ headers = <<>>
  /\ database = <<>>
  /\ resolved = 0
  /\ summarized_include_paths = <<>>
  /\ cursor = 0
  /\ include_paths_by_type = <<>>
  /\ report_files = <<>>
  /\ pdsc = <<>>
  /\ coverage = <<>>

\* sources = source_files(root); headers = header_files(sources)
SourceFiles ==
  /\ pc = "source_files"
  /\ sources' = SortedSet(Disk.files)
  /\ headers' = header_files(SortedSet(Disk.files))
  /\ pc' = "record_sources"
  /\ UNCHANGED <<dirs, hfiles, cincludes, database, resolved,
                 summarized_include_paths, cursor, include_paths_by_type, report_files,
                 pdsc, coverage>>

\* mutant: the run goes on with an empty list of sources
RecordIncludes_EmptySources ==
  /\ pc = "record_sources"
  /\ database' = LET keys == SortedPairs(cincludes)
                 IN [i \in 1..Len(keys) |->
                       [source |-> keys[i][1], include |-> keys[i][2],
                        mapped_headers |-> <<>>]]
  /\ pc' = "record_include_paths"
  /\ UNCHANGED <<dirs, hfiles, cincludes, sources, headers, resolved,
                 summarized_include_paths, cursor, include_paths_by_type, report_files,
                 pdsc, coverage>>

\* record_root, record_sources, record_includes
RecordIncludes ==
  /\ pc = "record_sources"
  /\ sources # <<>>
  /\ database' = LET keys == SortedPairs(cincludes)
                 IN [i \in 1..Len(keys) |->
                       [source |-> keys[i][1], include |-> keys[i][2],
                        mapped_headers |-> <<>>]]
  /\ pc' = "record_include_paths"
  /\ UNCHANGED <<dirs, hfiles, cincludes, sources, headers, resolved,
                 summarized_include_paths, cursor, include_paths_by_type, report_files,
                 pdsc, coverage>>

\* record_sources creates no "source_files" key for an empty list and
\* record_includes raises KeyError
RecordIncludesKeyError ==
  /\ pc = "record_sources"
  /\ sources = <<>>
  /\ pc' = "aborted"
  /\ UNCHANGED <<dirs, hfiles, cincludes, sources, headers, database, resolved,
                 summarized_include_paths, cursor, include_paths_by_type, report_files,
                 pdsc, coverage>>

\* one iteration of record_include_paths
RecordIncludePaths ==
  /\ pc = "record_include_paths"
  /\ resolved < Len(database)
  /\ \E ord \in {"asc", "desc"} :
       LET e == database[resolved + 1]
           r == include_paths_for_include(Disk, ord, e.source, e.include, headers)
       IN /\ ~r.raised
          /\ database' = [database EXCEPT ![resolved + 1].mapped_headers = r.database]
  /\ resolved' = resolved + 1
  /\ UNCHANGED <<dirs, hfiles, cincludes, pc, sources, headers,
                 summarized_include_paths, cursor, include_paths_by_type, report_files,
                 pdsc, coverage>>

\* os.scandir raised inside include_paths_for_include: the run ends
RecordIncludePathsRaise ==
  /\ pc = "record_include_paths"
  /\ resolved < Len(database)
  /\ \E ord \in {"asc", "desc"} :
       LET e == database[resolved + 1]
       IN include_paths_for_include(Disk, ord, e.source, e.include, headers).raised
  /\ pc' = "aborted"
  /\ UNCHANGED <<dirs, hfiles, cincludes, sources, headers, database, resolved,
                 summarized_include_paths, cursor, include_paths_by_type, report_files,
                 pdsc, coverage>>

\* internal_includes and record_include_types, then paths_report starts:
\* paths = dict()
PathsReportBegin ==
  /\ pc = "record_include_paths"
  /\ resolved = Len(database)
  /\ database' = record_include_types(database,
                                       internal_includes(includes(sources), headers))
  /\ pc' = "paths_report"
  /\ summarized_include_paths' = <<>>
  /\ cursor' = 0
  /\ UNCHANGED <<dirs, hfiles, cincludes, sources, headers, resolved,
                 include_paths_by_type, report_files,
                 pdsc, coverage>>

\* one iteration of the innermost loop of paths_report
AssignTypes ==
  /\ pc = "paths_report"
  /\ cursor < Len(Iterations(database))
  /\ LET it == Iterations(database)[cursor + 1]
         path == database[it[1]].mapped_headers[it[2]].include_paths[it[3]]
     IN summarized_include_paths' =
          assign_types(summarized_include_paths, database, it[1], it[2], path)
  /\ cursor' = cursor + 1
  /\ UNCHANGED <<dirs, hfiles, cincludes, pc, sources, headers, database, resolved,
                 include_paths_by_type, report_files,
                 pdsc, coverage>>

\* the report files estimate_include_paths writes: the yml dumps and the
\* lists of the verbose report
ReportFiles(by_type) ==
  LET internal_include_list == internal_includes(includes(sources), headers)
  IN [include_statistics |-> includes_with_count(sources),
      list_of_include_paths |-> summarized_include_paths,
      list_of_include_path_types |-> by_type,
      full_database_record |-> database,
      verbose_report |->
        [internal_include_list |-> internal_include_list,
         external_include_list |-> external_includes(includes(sources),
                                                     internal_include_list),
         system_include_list |-> system_includes(includes(sources)),
         header_file_list |-> headers]]

\* include_paths_by_type = path_types_report(summarized_include_paths), and
\* the report files are written
PathTypesReport ==
  /\ pc = "paths_report"
  /\ cursor = Len(Iterations(database))
  /\ include_paths_by_type' = path_types_report(summarized_include_paths)
  /\ report_files' = ReportFiles(path_types_report(summarized_include_paths))
  /\ pc' = "reported"
  /\ UNCHANGED <<dirs, hfiles, cincludes, sources, headers, database, resolved,
                 summarized_include_paths, cursor, pdsc, coverage>>

Next ==
  \/ SourceFiles
  \/ RecordIncludes
  \/ RecordIncludesKeyError
  \/ RecordIncludePaths
  \/ RecordIncludePathsRaise
  \/ PathsReportBegin
  \/ AssignTypes
  \/ PathTypesReport

Spec == Init /\ [][Next]_vars

-----------------------------------------------------------------------------
(* Runs on trees whose includes and files carry the name of a system header *)

\* the root alone, or the root and its folder b
TypeTrees == {T \in Trees : T # {} /\ T \subseteq {RootDir, Str(<<"a", "b">>)}}

\* x.h and stdio.h may lie in the root, x.h in the folder b
TypeHeaderFiles(T) ==
  {PathJoin(RootDir, "x.h"), PathJoin(RootDir, "stdio.h")}
    \cup {PathJoin(d, "x.h") : d \in T \ {RootDir}}

\* the include tokens of a/f.c
TypeTokens ==
  {Str(<<"stdio.h">>), Str(<<"..", "stdio.h">>), Str(<<"x.h">>), Str(<<"..", "x.h">>),
   Str(<<"..">>), Str(<<"b", "x.h">>), Str(<<"..", "a", "x.h">>)}

TypePairs == {<<PathJoin(RootDir, "f.c"), inc>> : inc \in TypeTokens}

InitTypes ==
  /\ dirs \in TypeTrees
  /\ hfiles \in SUBSET TypeHeaderFiles(dirs)
  /\ cincludes \in SubsetsUpTo(TypePairs, MaxIncludes)
  /\ pc = "source_files"
  /\ sources = <<>>
  /\ headers = <<>>
  /\ database = <<>>
  /\ resolved = 0
  /\ summarized_include_paths = <<>>
  /\ cursor = 0
  /\ include_paths_by_type = <<>>
  /\ report_files = <<>>
  /\ pdsc = <<>>
  /\ coverage = <<>>

SpecTypes == InitTypes /\ [][Next]_vars

-----------------------------------------------------------------------------
(* pdsc description coverage: pdsc_coverage of modules/pdsccoverage.py.    *)
(* The pack is the tree; pdsc is the list glob gives for *.pdsc in its     *)
(* root, a file being what it names: header files, include folders and     *)
(* source files.                                                           *)

\* os.path.normpath of a relative path: empty and "." segments are dropped,
\* a ".." cancels the segment before it
normpath(path) ==
  LET toks == Split(path)
      RECURSIVE Go(_, _)
      Go(i, out) ==
        IF i > Len(toks) THEN out
        ELSE IF toks[i] = <<>> \/ toks[i] = <<".">> THEN Go(i + 1, out)
        ELSE IF toks[i] = <<"..">> /\ out # <<>> /\ out[Len(out)] # <<"..">>
             THEN Go(i + 1, SubSeq(out, 1, Len(out) - 1))
        ELSE Go(i + 1, Append(out, toks[i]))
  IN IF Go(1, <<>>) = <<>> THEN <<".">> ELSE Join(Go(1, <<>>))

\* pdsc_include_paths: the folders of the header files and the include
\* folders the pdsc names
pdsc_include_paths(file) ==
  SortedSet({as_posix(Join(PySliceTo(Split(name), -1))) : name \in file.header_names}
              \cup {as_posix(name) : name \in file.include_names})

\* pdsc_sources
pdsc_sources(file) == SortedSet(file.source_names)

\* all_headers(root_path)
all_headers == header_files(SortedSet(Disk.files))

\* all_sources(root_path): a set
all_sources == Disk.files \ Range(all_headers)

\* headers_in_folder: glob folder/*.h
headers_in_folder(folder) ==
  SortedSet({f \in Disk.files : EndsWithH(f) /\ f = PathJoin(folder, f[Len(f)])})

\* headers_in_paths_scope
headers_in_paths_scope(include_paths, includes_list, root_path) ==
  LET candidates ==
        {as_posix(normpath(root_path \o <<Sep>> \o include_path \o <<Sep>> \o include)) :
           include_path \in Range(include_paths), include \in Range(includes_list)}
      locations ==
        {as_posix(normpath(root_path \o <<Sep>> \o include_path)) :
           include_path \in Range(include_paths)}
  IN SortedSet((candidates \cap Disk.files)
                 \cup UNION {Range(headers_in_folder(location)) : location \in locations})

\* full_path
full_path(root_path, pths) ==
  SortedSet({as_posix(root_path \o <<Sep>> \o q) : q \in Range(pths)})

\* count / total * 100 as "{0:3.1f}" prints it: in tenths of a percent,
\* rounded (no total of the model is large enough for a tie)
Quotient(count, total) == ((count * 2000) \div total + 1) \div 2

\* the packs: the root, with or without its folder b, x.h in any folder,
\* a/f.c with up to MaxIncludes includes, one of them of a .c file
CoverageTokens ==
  {Str(<<"x.h">>), Str(<<"..", "x.h">>), Str(<<"b", "x.h">>), Str(<<"f.c">>)}

\* what a *.pdsc file names, relative to the root
PdscFiles ==
  [header_names : SUBSET {Str(<<"x.h">>), Str(<<"b", "x.h">>)},
   include_names : SUBSET {<<"b", Sep>>},
   source_names : SUBSET {Str(<<"f.c">>), Str(<<"b", "f.c">>)}]

InitCoverage ==
  /\ dirs \in TypeTrees
  /\ hfiles \in SUBSET {PathJoin(d, "x.h") : d \in dirs}
  /\ cincludes \in SubsetsUpTo({<<PathJoin(RootDir, "f.c"), inc>> : inc \in CoverageTokens},
                                 MaxIncludes)
  /\ pdsc \in {<<>>} \cup {<<file>> : file \in PdscFiles}
  /\ pc = "pdsc_coverage"
  /\ coverage = <<>>
  /\ sources = <<>>
  /\ headers = <<>>
  /\ database = <<>>
  /\ resolved = 0
  /\ summarized_include_paths = <<>>
  /\ cursor = 0
  /\ include_paths_by_type = <<>>
  /\ report_files = <<>>

\* pdsc = pdsc_in_folder(root_path) ... headers_in_paths_scope(...)
PdscInFolder ==
  /\ pc = "pdsc_coverage"
  /\ pdsc # <<>>
  /\ coverage' =
       [include_paths |-> pdsc_include_paths(pdsc[1]),
        headers |-> all_headers,
        visible_headers_via_includes |->
          headers_in_paths_scope(pdsc_include_paths(pdsc[1]),
                                 includes(SortedSet(Disk.files)), RootDir)]
  /\ pc' = "visibility_quotient"
  /\ UNCHANGED <<dirs, hfiles, cincludes, sources, headers, database, resolved,
                 summarized_include_paths, cursor, include_paths_by_type,
                 report_files, pdsc>>

\* no *.pdsc in the folder: pdsc[0] raises IndexError
PdscInFolderRaise ==
  /\ pc = "pdsc_coverage"
  /\ pdsc = <<>>
  /\ pc' = "aborted"
  /\ UNCHANGED <<dirs, hfiles, cincludes, sources, headers, database, resolved,
                 summarized_include_paths, cursor, include_paths_by_type,
                 report_files, pdsc, coverage>>

\* visibility_quotient = visible_count / headers_count * 100
VisibilityQuotient ==
  /\ pc = "visibility_quotient"
  /\ Len(coverage.headers) # 0
  /\ coverage' =
       coverage @@
       [headers_count |-> Len(coverage.headers),
        visible_count |-> Len(coverage.visible_headers_via_includes),
        visibility_quotient |->
          Quotient(Len(coverage.visible_headers_via_includes), Len(coverage.headers))]
  /\ pc' = "sources_visibility_quotient"
  /\ UNCHANGED <<dirs, hfiles, cincludes, sources, headers, database, resolved,
                 summarized_include_paths, cursor, include_paths_by_type,
                 report_files, pdsc>>

\* headers_count is 0: the division raises ZeroDivisionError
VisibilityQuotientRaise ==
  /\ pc = "visibility_quotient"
  /\ Len(coverage.headers) = 0
  /\ pc' = "aborted"
  /\ UNCHANGED <<dirs, hfiles, cincludes, sources, headers, database, resolved,
                 summarized_include_paths, cursor, include_paths_by_type,
                 report_files, pdsc, coverage>>

\* sources_visibility_quotient = pdsc_sources_count / sources_count * 100
SourcesVisibilityQuotient ==
  /\ pc = "sources_visibility_quotient"
  /\ Cardinality(all_sources) # 0
  /\ coverage' =
       coverage @@
       [sources_count |-> Cardinality(all_sources),
        pdsc_sources_count |-> Len(pdsc_sources(pdsc[1])),
        sources_visibility_quotient |->
          Quotient(Len(pdsc_sources(pdsc[1])), Cardinality(all_sources))]
  /\ pc' = "ch_percentage"
  /\ UNCHANGED <<dirs, hfiles, cincludes, sources, headers, database, resolved,
                 summarized_include_paths, cursor, include_paths_by_type,
                 report_files, pdsc>>

\* sources_count is 0: the division raises ZeroDivisionError
SourcesVisibilityQuotientRaise ==
  /\ pc = "sources_visibility_quotient"
  /\ Cardinality(all_sources) = 0
  /\ pc' = "aborted"
  /\ UNCHANGED <<dirs, hfiles, cincludes, sources, headers, database, resolved,
                 summarized_include_paths, cursor, include_paths_by_type,
                 report_files, pdsc, coverage>>

\* ch_percentage = described_source_ch_count / total_source_ch_count * 100,
\* the total is not 0 after the two divisions before; then the lists of the
\* report
ChPercentage ==
  /\ pc = "ch_percentage"
  /\ coverage' =
       coverage @@
       [ch_percentage |->
          Quotient(coverage.visible_count + coverage.pdsc_sources_count,
                   coverage.sources_count + coverage.headers_count),
        headers_not_visible |->
          SortedSet(Range(coverage.headers)
                      \ Range(coverage.visible_headers_via_includes)),
        sources_described |-> full_path(RootDir, pdsc_sources(pdsc[1])),
        sources_not_described |->
          SortedSet(all_sources \ Range(full_path(RootDir, pdsc_sources(pdsc[1]))))]
  /\ pc' = "covered"
  /\ UNCHANGED <<dirs, hfiles, cincludes, sources, headers, database, resolved,
                 summarized_include_paths, cursor, include_paths_by_type,
                 report_files, pdsc>>

NextCoverage ==
  \/ PdscInFolder
  \/ PdscInFolderRaise
  \/ VisibilityQuotient
  \/ VisibilityQuotientRaise
  \/ SourcesVisibilityQuotient
  \/ SourcesVisibilityQuotientRaise
  \/ ChPercentage

SpecCoverage == InitCoverage /\ [][NextCoverage]_vars

-----------------------------------------------------------------------------
(* Vocabulary of the properties *)

\* the number of ".." segments of an include token
UpCount(include) == Cardinality({i \in 1..Len(Split(include)) : Split(include)[i] = <<"..">>})

\* the include's segments with the first upCount segments dropped
IncludeTail(include) == SubSeq(Split(include), UpCount(include) + 1, Len(Split(include)))

\* the trailing Len(tail) segments of the file are the segments of tail
TailMatches(file, tail) ==
  LET ft == Split(file)
  IN /\ Len(tail) <= Len(ft)
     /\ \A k \in 1..Len(tail) : ft[Len(ft) - Len(tail) + k] = tail[k]

\* the header's segments with the trailing Len(IncludeTail) segments removed
CandidateBase(header, include) ==
  LET ht == Split(header)
  IN Join(SubSeq(ht, 1, Len(ht) - Len(IncludeTail(include))))

\* the segments of the directory that holds the file
ContainingDir(file) == SubSeq(Split(file), 1, Len(Split(file)) - 1)

\* the entries include_paths_for_include has returned a mapping for
Resolved == {database[i] : i \in 1..resolved}

\* the ResolutionRecord of the header in a resolved entry
RecordOf(e, header) == e.mapped_headers[KeyIndex(e.mapped_headers, header)]

Records(e) == Range(e.mapped_headers)

Inventory == Range(headers)

-----------------------------------------------------------------------------
(* C1, C2: no upward reference *)

\* C1: an include without ".." whose matching header lies in another
\* directory than the source is recorded Mandatory, with the one candidate
\* "header minus the include's segments"
C1_MandatoryWhenNotColocated ==
  \A e \in Resolved : \A h \in Inventory :
    (/\ UpCount(e.include) = 0
     /\ TailMatches(h, Split(e.include))
     /\ ContainingDir(h) # ContainingDir(e.source))
    => /\ HasKey(e.mapped_headers, h)
       /\ RecordOf(e, h).path_types = <<"mandatory">>
       /\ RecordOf(e, h).include_paths =
            << Join(SubSeq(Split(h), 1, Len(Split(h)) - Len(Split(e.include)))) >>

\* Scenario B: an include of two segments recorded Mandatory
C1_Witness ==
  \E e \in Resolved : \E h \in Inventory :
    /\ UpCount(e.include) = 0
    /\ Len(Split(e.include)) = 2
    /\ TailMatches(h, Split(e.include))
    /\ ContainingDir(h) # ContainingDir(e.source)
    /\ HasKey(e.mapped_headers, h)
    /\ RecordOf(e, h).path_types = <<"mandatory">>

\* C2: an include without ".." whose matching header lies in the source's
\* directory is recorded Optional, never Mandatory, with the one candidate
\* candidateBase
C2_OptionalWhenColocated ==
  \A e \in Resolved : \A h \in Inventory :
    (/\ UpCount(e.include) = 0
     /\ TailMatches(h, Split(e.include))
     /\ ContainingDir(h) = ContainingDir(e.source))
    => /\ HasKey(e.mapped_headers, h)
       /\ RecordOf(e, h).path_types = <<"optional">>
       /\ RecordOf(e, h).include_paths = << CandidateBase(h, e.include) >>

\* Scenario A: source and header side by side, recorded Optional
C2_Witness ==
  \E e \in Resolved : \E h \in Inventory :
    /\ UpCount(e.include) = 0
    /\ TailMatches(h, Split(e.include))
    /\ ContainingDir(h) = ContainingDir(e.source)
    /\ HasKey(e.mapped_headers, h)
    /\ RecordOf(e, h).path_types = <<"optional">>
    /\ RecordOf(e, h).include_paths = << Join(ContainingDir(e.source)) >>

-----------------------------------------------------------------------------
(* C3, C4: upward references *)

\* d lies below base, at any nesting level
IsSubdirectory(d, base) ==
  /\ Len(Split(d)) > Len(Split(base))
  /\ SubSeq(Split(d), 1, Len(Split(base))) = Split(base)

\* the subdirectories of candidateBase on disk whose segment count lies in
\* (originDepth, originDepth + upCount]
DepthConsistent(header, include) ==
  LET originDepth == Len(Split(header)) - 1
  IN {d \in dirs :
        /\ IsSubdirectory(d, CandidateBase(header, include))
        /\ Len(Split(d)) > originDepth
        /\ Len(Split(d)) <= originDepth + UpCount(include)}

\* C3: with upCount > 0 the candidates of a record are exactly the immediate
\* and nested subdirectories of candidateBase in the depth range, tagged
\* Ambiguous; NonExisting only when there is none at any nesting level
C3_AllDepthConsistentSubdirectories ==
  \A e \in Resolved : \A r \in Records(e) :
    UpCount(e.include) > 0 =>
      IF DepthConsistent(r.header, e.include) # {}
      THEN /\ r.path_types = <<"ambiguous">>
           /\ Range(r.include_paths) = DepthConsistent(r.header, e.include)
      ELSE r.path_types = <<"non_existing">>

\* the include applied to the search directory D: every ".." cancels one
\* trailing segment of D, the other segments are appended
ApplyInclude(D, include) ==
  LET rest == SelectSeq(Split(include), LAMBDA t : t # <<"..">>)
  IN Join(SubSeq(Split(D), 1, Len(Split(D)) - UpCount(include)) \o rest)

\* C4 as claimed: every candidate of an Ambiguous record resolves the include
\* to the matched header, for every upCount >= 1
C4_EveryCandidateResolves ==
  \A e \in Resolved : \A r \in Records(e) :
    r.path_types = <<"ambiguous">> =>
      \A D \in Range(r.include_paths) : ApplyInclude(D, e.include) = r.header

\* C4 amended: when the include has exactly one "..", every candidate of an
\* Ambiguous record is a directory that resolves the include to the header
C4_CandidateResolvesForOneUp ==
  \A e \in Resolved : \A r \in Records(e) :
    (r.path_types = <<"ambiguous">> /\ UpCount(e.include) = 1) =>
      \A D \in Range(r.include_paths) :
        D \in dirs /\ ApplyInclude(D, e.include) = r.header

\* Scenario C: "../x.h", two candidates listed
C4_Witness ==
  \E e \in Resolved : \E r \in Records(e) :
    /\ UpCount(e.include) = 1
    /\ r.path_types = <<"ambiguous">>
    /\ Len(r.include_paths) = 2
    /\ \A D \in Range(r.include_paths) : ApplyInclude(D, e.include) = r.header

-----------------------------------------------------------------------------
(* C5, C6: matching *)

\* C5: a header has a record iff its trailing segments are the include's
\* tail, whatever the length of the tail (zero included)
C5_RecordIffTailMatches ==
  \A e \in Resolved : \A h \in Inventory :
    HasKey(e.mapped_headers, h) <=> TailMatches(h, IncludeTail(e.include))

NoHeaderMatch(include) == \A h \in Inventory : ~TailMatches(h, IncludeTail(include))

\* the paths the PathTypeReport got from entry number i
PathsFrom(i) ==
  {database[it[1]].mapped_headers[it[2]].include_paths[it[3]] :
     it \in {x \in Range(SubSeq(Iterations(database), 1, cursor)) : x[1] = i}}

\* C6: an include no header of the inventory tail-matches gives the empty
\* mapping, does not end the run, and gives the PathTypeReport no path
C6_NoMatchNoRecord ==
  /\ \A i \in 1..resolved :
       NoHeaderMatch(database[i].include) =>
         /\ database[i].mapped_headers = <<>>
         /\ pc \in {"paths_report", "reported"} => PathsFrom(i) = {}
  /\ (pc = "aborted" /\ resolved < Len(database)) =>
       ~NoHeaderMatch(database[resolved + 1].include)

\* an include without match was resolved in a tree with headers, and the
\* report was made
C6_Witness ==
  /\ pc = "reported"
  /\ Inventory # {}
  /\ \E i \in 1..resolved :
       NoHeaderMatch(database[i].include) /\ database[i].mapped_headers = <<>>
  /\ \E i \in 1..resolved : database[i].mapped_headers # <<>>

-----------------------------------------------------------------------------
(* C7, C8: the records *)

\* C7: Mandatory and Optional only without "..", Ambiguous and NonExisting
\* only with "..", and never tags of both pairs in one record
C7_TagsFollowUpCount ==
  \A e \in Resolved : \A r \in Records(e) :
    /\ (InList("mandatory", r.path_types) \/ InList("optional", r.path_types))
         => UpCount(e.include) = 0
    /\ (InList("ambiguous", r.path_types) \/ InList("non_existing", r.path_types))
         => UpCount(e.include) > 0
    /\ ~ /\ Range(r.path_types) \cap {"mandatory", "optional"} # {}
         /\ Range(r.path_types) \cap {"ambiguous", "non_existing"} # {}

\* records of both kinds exist in one run
C7_Witness ==
  /\ \E e \in Resolved : \E r \in Records(e) :
       UpCount(e.include) = 0 /\ InList("mandatory", r.path_types)
  /\ \E e \in Resolved : \E r \in Records(e) :
       UpCount(e.include) = 1 /\ InList("ambiguous", r.path_types)

\* C8: a NonExisting record lists exactly [None]; any other record lists at
\* least one path and never None
C8_CandidateList ==
  \A e \in Resolved : \A r \in Records(e) :
    IF InList("non_existing", r.path_types)
    THEN r.include_paths = <<None>>
    ELSE r.include_paths # <<>> /\ ~InList(None, r.include_paths)

\* a NonExisting record and an Ambiguous record of the same include
C8_Witness ==
  \E e \in Resolved :
    /\ \E r \in Records(e) : r.path_types = <<"non_existing">> /\ r.include_paths = <<None>>
    /\ \E r \in Records(e) : r.path_types = <<"ambiguous">> /\ r.include_paths # <<>>

-----------------------------------------------------------------------------
(* C9, C10: the reports *)

\* paths_report has run through all its iterations
PathsReportDone ==
  \/ pc = "reported"
  \/ pc = "paths_report" /\ cursor = Len(Iterations(database))

\* the keys of the PathTypeReport
ReportKeys == {summarized_include_paths[n].path : n \in 1..Len(summarized_include_paths)}

\* the tag set of a path in the PathTypeReport, empty for a path that is no key
ReportTags(P) ==
  IF HasPath(summarized_include_paths, P)
  THEN Range(summarized_include_paths[PathIndex(summarized_include_paths, P)].types)
  ELSE {}

\* everything some record lists as a candidate, None included
Candidates == UNION {Range(r.include_paths) : r \in UNION {Records(e) : e \in Resolved}}

\* the tags other than NonExisting of the records that list P
RecordTags(P) ==
  {T \in {"mandatory", "optional", "ambiguous"} :
     \E e \in Resolved : \E r \in Records(e) :
       InList(T, r.path_types) /\ InList(P, r.include_paths)}

\* C9: after paths_report a path carries tag T iff a record tagged T, T not
\* NonExisting, lists it; None is no key, NonExisting is in no tag set and no
\* tag set is empty
C9_ReportIsUnionOfRecords ==
  PathsReportDone =>
    /\ \A P \in ReportKeys \cup Candidates : ReportTags(P) = RecordTags(P)
    /\ None \notin ReportKeys
    /\ \A P \in ReportKeys : ReportTags(P) # {} /\ "non_existing" \notin ReportTags(P)
    /\ \A m, n \in 1..Len(summarized_include_paths) :
         summarized_include_paths[m].path = summarized_include_paths[n].path => m = n

\* a database with a NonExisting record and a path tagged by two records
C9_Witness ==
  /\ PathsReportDone
  /\ None \in Candidates
  /\ \E P \in ReportKeys : Cardinality(ReportTags(P)) = 2

\* P is in the list of the bucket
InBucket(tag, P) ==
  tag \in DOMAIN include_paths_by_type /\ InList(P, include_paths_by_type[tag])

\* C10: mandatory iff tagged Mandatory; optional iff tagged Optional and not
\* Mandatory; ambiguous iff tagged Ambiguous and not Mandatory
C10_Precedence ==
  pc = "reported" =>
    /\ \A P \in ReportKeys :
         /\ InBucket("mandatory", P) <=> "mandatory" \in ReportTags(P)
         /\ InBucket("optional", P) <=>
              ("optional" \in ReportTags(P) /\ "mandatory" \notin ReportTags(P))
         /\ InBucket("ambiguous", P) <=>
              ("ambiguous" \in ReportTags(P) /\ "mandatory" \notin ReportTags(P))
    /\ \A tag \in DOMAIN include_paths_by_type :
         Range(include_paths_by_type[tag]) \subseteq ReportKeys

\* a path tagged Mandatory by one triple and Optional by another is in the
\* mandatory bucket only
C10_Witness ==
  /\ pc = "reported"
  /\ \E P \in ReportKeys :
       /\ {"mandatory", "optional"} \subseteq ReportTags(P)
       /\ InBucket("mandatory", P)
       /\ ~InBucket("optional", P)

\* a path tagged Optional and Ambiguous but not Mandatory is in both buckets
C10_WitnessBoth ==
  /\ pc = "reported"
  /\ \E P \in ReportKeys :
       /\ ReportTags(P) = {"optional", "ambiguous"}
       /\ InBucket("optional", P)
       /\ InBucket("ambiguous", P)

-----------------------------------------------------------------------------
(* C11: the buckets of a path *)

\* the buckets that list P
BucketsWith(P) == {tag \in BucketNames : InBucket(tag, P)}

\* C11 as claimed: after the full pipeline every path of the PathTypeReport
\* is in exactly one of the three buckets
C11_ExactlyOneBucket ==
  pc = "reported" => \A P \in ReportKeys : Cardinality(BucketsWith(P)) = 1

\* C11 amended: after the full pipeline every path of the PathTypeReport is
\* in at least one bucket, a path of the mandatory bucket is in no other, and
\* a path is in two buckets, optional and ambiguous, exactly when it is tagged
\* Optional and Ambiguous and not Mandatory
C11_OneBucketUnlessOptionalAndAmbiguous ==
  pc = "reported" =>
    \A P \in ReportKeys :
      /\ BucketsWith(P) \in {{"mandatory"}, {"optional"}, {"ambiguous"},
                              {"optional", "ambiguous"}}
      /\ BucketsWith(P) = {"optional", "ambiguous"}
           <=> ({"optional", "ambiguous"} \subseteq ReportTags(P)
                /\ "mandatory" \notin ReportTags(P))

\* one report with a path in the ambiguous bucket only and a path in both
\* the optional and the ambiguous bucket
C11_Witness ==
  /\ pc = "reported"
  /\ \E P \in ReportKeys : BucketsWith(P) = {"ambiguous"}
  /\ \E P \in ReportKeys : BucketsWith(P) = {"optional", "ambiguous"}

-----------------------------------------------------------------------------
(* C12: the order of a bucket list *)

\* every element is less than every later one: ascending, nothing twice
StrictlyAscending(seq) == \A m, n \in 1..Len(seq) : m < n => StrLess(seq[m], seq[n])

\* C12: each bucket list path_types_report returns is in ascending
\* lexicographic order and holds no path twice
C12_BucketsSortedNoDuplicates ==
  pc = "reported" =>
    \A tag \in DOMAIN include_paths_by_type :
      StrictlyAscending(include_paths_by_type[tag])

\* a bucket of two paths whose keys were inserted in descending order
C12_Witness ==
  /\ pc = "reported"
  /\ \E tag \in DOMAIN include_paths_by_type :
       /\ Len(include_paths_by_type[tag]) = 2
       /\ Bucket(summarized_include_paths, tag) = Reverse(include_paths_by_type[tag])

-----------------------------------------------------------------------------
(* C13: the bucket lists and the order of processing *)

\* the permutations of 1..n
Perms(n) == {f \in [1..n -> 1..n] : \A i, j \in 1..n : f[i] = f[j] => i = j}

\* the database of a run on the same tree in which every directory listing
\* comes in the order ord
Rerun(ord) ==
  [i \in 1..Len(database) |->
     [database[i] EXCEPT !.mapped_headers =
        include_paths_for_include(Disk, ord, database[i].source,
                                  database[i].include, headers).database]]

\* the entries of dbase in the order f, the headers of every entry reversed
\* when rev
Reordered(dbase, f, rev) ==
  [i \in 1..Len(dbase) |->
     [dbase[f[i]] EXCEPT !.mapped_headers = IF rev THEN Reverse(@) ELSE @]]

\* C13: the bucket lists of the run are the bucket lists of the same records
\* processed in any order of the (source, include) entries and of the
\* headers, and of a second run on the unchanged tree with the directory
\* listings in ascending or in descending order (the run itself takes every
\* listing in either order)
C13_OrderIndependent ==
  pc = "reported" =>
    /\ \A f \in Perms(Len(database)) : \A rev \in BOOLEAN :
         path_types_report(paths_report(Reordered(database, f, rev)))
           = include_paths_by_type
    /\ \A ord \in {"asc", "desc"} :
         path_types_report(paths_report(Rerun(ord))) = include_paths_by_type

\* another order of the entries gives another PathTypeReport (keys or tags
\* in another order), the report has a bucket of two paths, and a listing of
\* two directories was recorded
C13_Witness ==
  /\ pc = "reported"
  /\ \E f \in Perms(Len(database)) :
       paths_report(Reordered(database, f, FALSE)) # summarized_include_paths
  /\ \E tag \in DOMAIN include_paths_by_type : Len(include_paths_by_type[tag]) = 2
  /\ Rerun("asc") # Rerun("desc")

-----------------------------------------------------------------------------
(* C14: internal and external includes *)

\* record_include_types has run
TypesRecorded == pc \in {"paths_report", "reported"}

\* C14: for the include tokens of the run and every file list taken from the
\* tree, internal_includes and external_includes are disjoint and their union
\* is the token set; record_include_types gives every include of every source
\* exactly one of the labels "internal" and "external", "internal" to the
\* members of internal_includes
C14_InternalExternalPartition ==
  TypesRecorded =>
    /\ \A H \in SUBSET Range(sources) :
         LET include_list == includes(sources)
             internal == internal_includes(include_list, SortedSet(H))
             external == external_includes(include_list, internal)
         IN /\ Range(internal) \cup Range(external) = Range(include_list)
            /\ Range(internal) \cap Range(external) = {}
    /\ \A i \in 1..Len(database) :
         /\ Cardinality(Range(database[i].include_type) \cap {"internal", "external"}) = 1
         /\ InList("internal", database[i].include_type)
              <=> InList(database[i].include,
                         internal_includes(includes(sources), headers))

\* a run with an include labelled internal and an include labelled external
C14_Witness ==
  /\ pc = "reported"
  /\ \E i \in 1..Len(database) : InList("internal", database[i].include_type)
  /\ \E i \in 1..Len(database) : InList("external", database[i].include_type)
  /\ report_files.verbose_report.internal_include_list # <<>>
  /\ report_files.verbose_report.external_include_list # <<>>

-----------------------------------------------------------------------------
(* C15: what internal_includes returns *)

\* the token's segments behind its ".." are the trailing segments, as many,
\* of a file of the list
TailOfSomeFile(token, file_list) ==
  \E file \in Range(file_list) : TailMatches(file, IncludeTail(token))

-----------------------------------------------------------------------------
(* C16: system includes *)

\* C16: an include is labelled "system", and listed by system_includes, iff
\* the include string as written is in known_system_includes; the label is
\* the same for every file list taken from the tree
C16_SystemIffInAllowList ==
  /\ TypesRecorded =>
       \A i \in 1..Len(database) :
         /\ InList("system", database[i].include_type)
              <=> database[i].include \in known_system_includes
         /\ \A H \in SUBSET Range(sources) :
              InList("system",
                     include_type(database[i].include,
                                  internal_includes(includes(sources), SortedSet(H))))
                <=> InList("system", database[i].include_type)
  /\ pc = "reported" =>
       Range(report_files.verbose_report.system_include_list)
         = Range(includes(sources)) \cap known_system_includes

\* Scenario D with a file a/stdio.h in the tree: "stdio.h" is system and
\* internal, "../stdio.h" is internal and not system
C16_Witness ==
  /\ pc = "reported"
  /\ PathJoin(RootDir, "stdio.h") \in hfiles
  /\ \E i \in 1..Len(database) :
       /\ database[i].include = Str(<<"stdio.h">>)
       /\ database[i].include_type = <<"system", "internal">>
  /\ \E i \in 1..Len(database) :
       /\ database[i].include = Str(<<"..", "stdio.h">>)
       /\ database[i].include_type = <<"internal">>

\* Scenario D without a file of that name: "stdio.h" is system and external
C16_WitnessNoFile ==
  /\ pc = "reported"
  /\ PathJoin(RootDir, "stdio.h") \notin hfiles
  /\ \E i \in 1..Len(database) :
       /\ database[i].include = Str(<<"stdio.h">>)
       /\ database[i].include_type = <<"system", "external">>

-----------------------------------------------------------------------------
(* C17: a coverage percentage with denominator zero *)

\* the pack has no header file or no source file
ZeroDenominator == Len(all_headers) = 0 \/ Cardinality(all_sources) = 0

\* C17: with zero header files or zero source files in the pack, pdsc_coverage
\* raises no division fault, goes on, and the percentage of the zero
\* denominator is the sentinel "undefined"
C17_ZeroDenominatorGivesSentinel ==
  (pdsc # <<>> /\ ZeroDenominator) =>
    /\ pc # "aborted"
    /\ pc = "covered" =>
         /\ Len(all_headers) = 0 => coverage.visibility_quotient = "undefined"
         /\ Cardinality(all_sources) = 0 =>
              coverage.sources_visibility_quotient = "undefined"

-----------------------------------------------------------------------------
(* C18: a directory listing that fails *)

\* the header matches the include, which has ".." and segments behind them,
\* and candidateBase is no directory on disk
ListingFails(include, header) ==
  /\ UpCount(include) > 0
  /\ IncludeTail(include) # <<>>
  /\ TailMatches(header, IncludeTail(include))
  /\ CandidateBase(header, include) \notin dirs

\* C18: when listing the subdirectories of candidateBase fails for a matching
\* header of an include with "..", nothing is raised in
\* include_paths_for_include, and once the include is resolved the header's
\* record is tagged NonExisting with no candidate but None
C18_ListingFailureIsNonExisting ==
  \A i \in 1..Len(database) : \A h \in Inventory :
    ListingFails(database[i].include, h) =>
      /\ ~(pc = "aborted" /\ resolved = i - 1)
      /\ i <= resolved =>
           /\ HasKey(database[i].mapped_headers, h)
           /\ RecordOf(database[i], h).path_types = <<"non_existing">>
           /\ RecordOf(database[i], h).include_paths = <<None>>

-----------------------------------------------------------------------------
(* C19, C20: the root and the end of the run *)

\* the root given to the run is a directory on disk
RootExists == RootDir \in dirs

\* estimate_include_paths was left by an exception
Aborted == pc = "aborted"

\* the report files the run has written
Written == DOMAIN report_files

\* C19: a run on an existing root never aborts, whatever the tree holds (no
\* file at all, no include at all), and after path_types_report its report
\* files are written
C19_OnlyMissingRootAborts ==
  RootExists =>
    /\ ~Aborted
    /\ pc = "reported" => Written # {}

\* C20: on a root that does not exist the run ends aborted and in no other
\* way, before any resolution: the database has no entry,
\* include_paths_for_include is not reached and no report file is written
C20_MissingRootAbortsBeforeResolution ==
  ~RootExists =>
    /\ pc \in {"source_files", "record_sources", "aborted"}
    /\ ~Aborted => ENABLED Next
    /\ database = <<>>
    /\ resolved = 0
    /\ Written = {}

\* the run on a missing root has ended
C20_Witness == ~RootExists /\ Aborted /\ sources = <<>>

-----------------------------------------------------------------------------
(* C21: the source file and its directory *)

\* include_paths_for_include has just returned the mapping of an entry
JustResolved == pc = "record_include_paths" /\ resolved > 0

\* the entry resolved last
Latest == database[resolved]

\* the result for the include of the entry resolved last, asked from source
ResultFrom(ord, source) ==
  include_paths_for_include(Disk, ord, source, Latest.include, headers)

\* C21: any file of the tree that lies in the directory of the source gives
\* the same result as the source, for the same include, headers and tree,
\* so the mapping of the entry is the one a run memoized by (include,
\* directory of the source) stores for it
C21_SourceCountsByDirectoryOnly ==
  JustResolved =>
    /\ \A ord \in {"asc", "desc"} :
         LET result == ResultFrom(ord, Latest.source)
         IN \A other \in Range(sources) \ {Latest.source} :
              ContainingDir(other) = ContainingDir(Latest.source) =>
                ResultFrom(ord, other) = result
    /\ \E ord \in {"asc", "desc"} :
         Latest.mapped_headers = ResultFrom(ord, Latest.source).database

\* the header beside the source gives the result of the source, and a source
\* of another directory gives another tag for the same include
C21_Witness ==
  /\ JustResolved
  /\ \E other \in Range(sources) :
       /\ other # Latest.source
       /\ ContainingDir(other) = ContainingDir(Latest.source)
       /\ ResultFrom("asc", other).database = Latest.mapped_headers
  /\ \E r \in Records(Latest) : r.path_types = <<"optional">>
  /\ \E other \in Range(sources) :
       /\ ContainingDir(other) # ContainingDir(Latest.source)
       /\ \E r \in Range(ResultFrom("asc", other).database) :
            r.path_types = <<"mandatory">>

-----------------------------------------------------------------------------
(* C22, C23: what Optional and Mandatory say about the source directory *)

\* the directory of the source of the entry resolved last
LatestSourceDir == Join(ContainingDir(Latest.source))

\* C22: the candidate of a record tagged Optional is the directory of the
\* source, and the include applied to that directory is the header, for an
\* include of any number of segments
C22_OptionalCandidateIsSourceDir ==
  JustResolved =>
    \A r \in Records(Latest) :
      r.path_types = <<"optional">> =>
        /\ r.include_paths = <<LatestSourceDir>>
        /\ ApplyInclude(LatestSourceDir, Latest.include) = r.header

\* C23: the candidate of a record tagged Mandatory is not the directory of
\* the source, and the include applied to the directory of the source is not
\* the header
C23_MandatoryCandidateIsNotSourceDir ==
  JustResolved =>
    \A r \in Records(Latest) :
      r.path_types = <<"mandatory">> =>
        /\ r.include_paths # <<LatestSourceDir>>
        /\ ApplyInclude(LatestSourceDir, Latest.include) # r.header

-----------------------------------------------------------------------------
(* C24: candidateBase and the header *)

\* an entry is about to be resolved
Pending == pc = "record_include_paths" /\ resolved < Len(database)

\* the entry include_paths_for_include is called for next
NextEntry == database[resolved + 1]

\* the headers the loop of include_paths_for_include matches with the include
MatchingHeaders(include) ==
  {h \in Inventory :
     HeaderMatches(Split(h), Split(include), UpReferenceCount(Split(include)))}

\* include_path_candidate as the loop computes it
CandidateOf(header, include) ==
  IncludePathCandidate(Split(header), Split(include), UpReferenceCount(Split(include)))

\* the segments of the candidate followed by the segments of the include
\* behind its ".." are the segments of the header
PrefixOfHeader(header, include) ==
  Split(CandidateOf(header, include)) \o IncludeTail(include) = Split(header)

\* C24 as claimed: for every matching (include, header) pair candidateBase
\* is a prefix of the header in this sense, and without ".." the recorded
\* candidate, the separator and the include are the header path
C24_CandidateBaseIsPrefix ==
  /\ Pending =>
       \A h \in MatchingHeaders(NextEntry.include) : PrefixOfHeader(h, NextEntry.include)
  /\ JustResolved =>
       \A r \in Records(Latest) :
         UpCount(Latest.include) = 0 =>
           r.include_paths[1] \o <<Sep>> \o Latest.include = r.header

\* C24 amended: the same for the pairs whose include does not spell the
\* whole header path, that is whose candidateBase is not the empty string
C24_NonEmptyCandidateBaseIsPrefix ==
  /\ Pending =>
       \A h \in MatchingHeaders(NextEntry.include) :
         CandidateOf(h, NextEntry.include) # <<>> => PrefixOfHeader(h, NextEntry.include)
  /\ JustResolved =>
       \A r \in Records(Latest) :
         (UpCount(Latest.include) = 0 /\ r.include_paths[1] # <<>>) =>
           r.include_paths[1] \o <<Sep>> \o Latest.include = r.header

\* an include of two segments without "..", its candidate recorded
C24_Witness ==
  /\ JustResolved
  /\ UpCount(Latest.include) = 0
  /\ Len(Split(Latest.include)) = 2
  /\ \E r \in Records(Latest) :
       /\ r.include_paths[1] # <<>>
       /\ r.include_paths[1] \o <<Sep>> \o Latest.include = r.header
       /\ PrefixOfHeader(r.header, Latest.include)

-----------------------------------------------------------------------------
(* C25: the report while paths_report folds the records *)

\* the tag set of P in a PathTypeReport, empty for a path that is no key
TagsIn(pths, P) ==
  IF HasPath(pths, P) THEN Range(pths[PathIndex(pths, P)].types) ELSE {}

\* the buckets P is listed in, in a BucketedReport
BucketsIn(by_type, P) == {tag \in DOMAIN by_type : InList(P, by_type[tag])}

\* C25: in every step each key of the PathTypeReport stays a key and keeps
\* its tags, and a path tagged Mandatory is bucketed mandatory and nothing
\* else, in the report of this step and in the report of the next
C25_TagsGrowAndMandatoryStays ==
  [][LET now == path_types_report(summarized_include_paths)
         next == path_types_report(summarized_include_paths')
     IN \A n \in 1..Len(summarized_include_paths) :
          LET P == summarized_include_paths[n].path
          IN /\ HasPath(summarized_include_paths', P)
             /\ TagsIn(summarized_include_paths, P) \subseteq TagsIn(summarized_include_paths', P)
             /\ "mandatory" \in TagsIn(summarized_include_paths, P) =>
                   /\ BucketsIn(now, P) = {"mandatory"}
                   /\ BucketsIn(next, P) = {"mandatory"}]_vars

\* the fold is under way and a path tagged Mandatory got a second tag later
C25_Witness ==
  /\ pc = "paths_report"
  /\ cursor > 0
  /\ \E n \in 1..Len(summarized_include_paths) :
       /\ Len(summarized_include_paths[n].types) = 2
       /\ summarized_include_paths[n].types[1] = "mandatory"
       /\ BucketsIn(path_types_report(summarized_include_paths),
                    summarized_include_paths[n].path) = {"mandatory"}

-----------------------------------------------------------------------------
(* C26: what is left of the include behind its ".." decides *)

\* the directories on disk directly below d
ImmediateSubdirectories(d) == {x \in dirs : Parent(x) = d}

\* the candidates of a record, the placeholder None left out
ListedDirectories(r) == Range(r.include_paths) \ {None}

\* C26: for an include with ".." and a matching header whose candidateBase
\* is a directory on disk and not the empty string: with one segment behind
\* the ".." the candidates are the immediate subdirectories of the header's
\* directory, each once, tagged Ambiguous when there is one, whatever the
\* number of ".." and the place of the source; with two or more segments
\* behind the ".." the record is NonExisting with the placeholder alone
C26_TailLengthDecides ==
  (JustResolved /\ UpCount(Latest.include) >= 1) =>
    \A h \in MatchingHeaders(Latest.include) :
      LET base == CandidateBase(h, Latest.include)
      IN (base # <<>> /\ base \in dirs) =>
           /\ HasKey(Latest.mapped_headers, h)
           /\ LET r == RecordOf(Latest, h)
                  subs == ImmediateSubdirectories(Join(ContainingDir(h)))
              IN IF Len(IncludeTail(Latest.include)) = 1
                 THEN /\ ListedDirectories(r) = subs
                      /\ subs # {} =>
                            /\ r.path_types = <<"ambiguous">>
                            /\ Len(r.include_paths) = Cardinality(subs)
                      /\ subs = {} =>
                            /\ r.path_types = <<"non_existing">>
                            /\ r.include_paths = <<None>>
                 ELSE /\ r.path_types = <<"non_existing">>
                      /\ r.include_paths = <<None>>

\* two ".." and one segment behind them, the source not in the header's
\* directory, both subdirectories of the header's directory listed
C26_WitnessOneSegment ==
  /\ JustResolved
  /\ UpCount(Latest.include) = 2
  /\ Len(IncludeTail(Latest.include)) = 1
  /\ \E r \in Records(Latest) :
       /\ ContainingDir(r.header) # ContainingDir(Latest.source)
       /\ Cardinality(ImmediateSubdirectories(Join(ContainingDir(r.header)))) = 2
       /\ ListedDirectories(r) = ImmediateSubdirectories(Join(ContainingDir(r.header)))
       /\ r.path_types = <<"ambiguous">>

\* two segments behind the "..", candidateBase with subdirectories on disk,
\* the record NonExisting
C26_Witness ==
  /\ JustResolved
  /\ UpCount(Latest.include) >= 1
  /\ Len(IncludeTail(Latest.include)) = 2
  /\ \E r \in Records(Latest) :
       LET base == CandidateBase(r.header, Latest.include)
       IN /\ base \in dirs
          /\ Cardinality(ImmediateSubdirectories(base)) = 2
          /\ r.path_types = <<"non_existing">>

-----------------------------------------------------------------------------
(* C27: one tag for a record *)

\* C27: every record include_paths_for_include returns has exactly one tag,
\* which is the tag get_include_types reads, and a record for an include
\* without ".." has exactly one candidate
C27_OneTagPerRecord ==
  JustResolved =>
    \A j \in 1..Len(Latest.mapped_headers) :
      LET r == Latest.mapped_headers[j]
      IN /\ Len(r.path_types) = 1
         /\ Range(r.path_types) = {get_include_types(database, resolved, j)}
         /\ UpCount(Latest.include) = 0 => Len(r.include_paths) = 1

\* an include that two headers match, recorded with different tags, and
\* none of the two records has a second tag
C27_Witness ==
  /\ JustResolved
  /\ UpCount(Latest.include) = 0
  /\ \E i, j \in 1..Len(Latest.mapped_headers) :
       /\ get_include_types(database, resolved, i) = "mandatory"
       /\ get_include_types(database, resolved, j) = "optional"
       /\ Len(Latest.mapped_headers[i].path_types) = 1
       /\ Len(Latest.mapped_headers[j].path_types) = 1
       /\ Len(Latest.mapped_headers[i].include_paths) = 1

-----------------------------------------------------------------------------
(* C28: the source of an include with ".." *)

\* source paths in and outside the tree, in every directory depth
AnySources ==
  {Str(<<"f.c">>), Str(<<"a", "b", "f.c">>), Str(<<"a", "c", "f.c">>),
   Str(<<"a", "b", "c", "f.c">>)}

\* C28: for an include with ".." include_paths_for_include returns the same
\* for every source path, records and exception alike
C28_UpReferenceIgnoresSource ==
  (Pending /\ UpCount(NextEntry.include) >= 1) =>
    \A ord \in {"asc", "desc"} :
      LET result == include_paths_for_include(Disk, ord, NextEntry.source,
                                              NextEntry.include, headers)
      IN \A other \in AnySources :
           include_paths_for_include(Disk, ord, other, NextEntry.include, headers) = result

\* the same include with ".." resolved for sources of two directories, an
\* Ambiguous record in the one mapping both got
C28_Witness ==
  /\ JustResolved
  /\ UpCount(Latest.include) >= 1
  /\ \E r \in Records(Latest) : r.path_types = <<"ambiguous">>
  /\ \E i \in 1..(resolved - 1) :
       /\ database[i].include = Latest.include
       /\ ContainingDir(database[i].source) # ContainingDir(Latest.source)
       /\ database[i].mapped_headers = Latest.mapped_headers

-----------------------------------------------------------------------------
(* C29: the buckets cover the report *)

\* the paths of all lists of the BucketedReport
BucketedPaths ==
  UNION {Range(include_paths_by_type[tag]) : tag \in DOMAIN include_paths_by_type}

\* C29: the paths of the mandatory, optional and ambiguous lists together
\* are the keys of the PathTypeReport, and there is no list but these three
C29_BucketsCoverReportKeys ==
  pc = "reported" =>
    /\ BucketedPaths = ReportKeys
    /\ DOMAIN include_paths_by_type \subseteq BucketNames

\* a report with a key of two tags and keys in all three lists
C29_Witness ==
  /\ pc = "reported"
  /\ DOMAIN include_paths_by_type = BucketNames
  /\ \E P \in ReportKeys : Cardinality(ReportTags(P)) = 2
  /\ BucketedPaths = ReportKeys

-----------------------------------------------------------------------------
(* C30: the coverage percentages *)

\* C30: the headers pdsc_coverage counts as visible are headers of the
\* tree, and the header visibility and the combined coverage, in tenths of a
\* percent, are at most 100 percent
C30_VisibleHeadersWithinInventory ==
  pc = "covered" =>
    /\ Range(coverage.visible_headers_via_includes) \subseteq Range(coverage.headers)
    /\ coverage.visibility_quotient <= 1000
    /\ coverage.ch_percentage <= 1000

=============================================================================
